---- MODULE Spec2Model ----
(***************************************************************************)
(* The openvdb/8.1.0 recipe (recipes/openvdb/8.1.0/conanfile.py) as a      *)
(* state machine: the recipe object's fields are the variables, and each   *)
(* lifecycle hook (config_options, configure, validate, requirements,      *)
(* build, package, package_info) is one action.                            *)
(*                                                                         *)
(* Representation of the values the recipe handles:                        *)
(*  - an option value is the string the options object stores ("True",     *)
(*    "False", "None", "sse42", "avx"); its truth value is OptionTruthy;   *)
(*  - the option schema is DOMAIN options: `del self.options.x` removes x  *)
(*    from the domain;                                                     *)
(*  - a version string "6.3.1" is the sequence <<6, 3, 1>> of its dotted   *)
(*    components; tools.Version parses it loosely (SemVer);                *)
(*  - compiler.runtime is the sequence of its characters, so that          *)
(*    `"MT" in runtime` is a real substring test;                          *)
(*  - compiler.cppstd is <<>> when unset, else <<[gnu, std]>>; every        *)
(*    compiler is taken to have the cppstd sub-setting;                    *)
(*  - an exception leaving a hook is recorded in `error` and ends the      *)
(*    invocation (pc = "failed").                                          *)
(***************************************************************************)
EXTENDS Integers, Sequences, FiniteSets, TLC

VARIABLES
    settings,     \* self.settings: os, arch, compiler, version, runtime, cppstd
    options,      \* self.options: option name -> stored value
    boost_shared, \* self.options["boost"].shared
    pc,           \* the lifecycle hook the engine calls next
    error,        \* the exception that left a hook (NoError when none)
    requires,     \* the requirements declared by self.requires(...)
    _cmake,       \* the cached CMake helper: <<>> is None, else <<helper>>
    cmake_calls,  \* what the external build tool was asked to do so far
    files,        \* source tree and working directory files
    cpp_info,     \* the exported component "openvdb-core": <<>> until package_info
    calls         \* number of build()/package() calls made so far

vars == <<settings, options, boost_shared, pc, error, requires, _cmake,
          cmake_calls, files, cpp_info, calls>>

(***************************************************************************)
(* Bounds of the model.                                                    *)
(***************************************************************************)
\* build() and package() calls made on one recipe object
MaxCalls == 3
\* how far each component of a candidate compiler version may lie from the
\* corresponding component of the table's minimum version
VersionSpread == 1

(***************************************************************************)
(* Option values                                                           *)
(***************************************************************************)
PyStr(b) == IF b THEN "True" ELSE "False"

\* PackageOptionValue.__bool__ as used by `if self.options.x:`
OptionTruthy(v) == v \notin {"False", "false", "None", "none", "0", "off", ""}

default_options ==
    [shared |-> "False", fPIC |-> "True", with_blosc |-> "True",
     with_zlib |-> "True", with_log4cplus |-> "False", simd |-> "None"]

BoolValues == {"True", "False"}
SimdValues == {"None", "sse42", "avx"}

\* `del self.options.<field>`: the field leaves the schema; deleting an option
\* that is already gone is swallowed by the options object.
DelOption(opts, field) == [k \in DOMAIN opts \ {field} |-> opts[k]]

(***************************************************************************)
(* Versions                                                                *)
(***************************************************************************)
_compilers_min_version ==
    ("msvc" :> <<19, 10>>) @@ ("Visual Studio" :> <<15>>) @@
    ("gcc" :> <<6, 3, 1>>) @@ ("clang" :> <<3, 8>>) @@
    ("apple-clang" :> <<3, 8>>) @@ ("intel" :> <<17>>)

Component(v, i) == IF i <= Len(v) THEN v[i] ELSE 0

\* tools.Version(x): a loose semantic version, missing components are 0
SemVer(v) == <<Component(v, 1), Component(v, 2), Component(v, 3)>>

\* SemVer.compare: -1, 0 or 1
SemVerCompare(a, b) ==
    IF a[1] # b[1] THEN (IF a[1] < b[1] THEN -1 ELSE 1)
    ELSE IF a[2] # b[2] THEN (IF a[2] < b[2] THEN -1 ELSE 1)
    ELSE IF a[3] # b[3] THEN (IF a[3] < b[3] THEN -1 ELSE 1)
    ELSE 0

\* fault: `<=` for `<`
VersionLE(v, other) == SemVerCompare(SemVer(v), SemVer(other)) <= 0

\* tools.Version.__lt__
VersionLT(v, other) == SemVerCompare(SemVer(v), SemVer(other)) < 0

(***************************************************************************)
(* Exceptions                                                              *)
(***************************************************************************)
NoError == [type |-> "none", rule |-> "", compiler |-> "", required |-> <<>>]

\* ConanInvalidConfiguration(message): `rule` stands for the message text,
\* `compiler` and `required` for the values formatted into it
Invalid(rule, compiler, required) ==
    [type |-> "ConanInvalidConfiguration", rule |-> rule,
     compiler |-> compiler, required |-> required]

KeyError(key) ==
    [type |-> "KeyError", rule |-> "", compiler |-> key, required |-> <<>>]

\* an exception raised by the external build tool or the file system
External(what) ==
    [type |-> "ExternalError", rule |-> what, compiler |-> "", required |-> <<>>]

(***************************************************************************)
(* config_options / configure                                              *)
(***************************************************************************)
config_options(opts) ==
    IF settings.os = "Windows" THEN DelOption(opts, "fPIC") ELSE opts

\* fault: the guard of configure() inverted
configure_inverted(opts) ==
    IF ~OptionTruthy(opts.shared) THEN DelOption(opts, "fPIC") ELSE opts

configure(opts) ==
    IF OptionTruthy(opts.shared) THEN DelOption(opts, "fPIC") ELSE opts

ConfigOptions ==
    /\ pc = "config_options"
    /\ options' = config_options(options)
    /\ pc' = "configure"
    /\ UNCHANGED <<settings, boost_shared, error, requires, _cmake,
                   cmake_calls, files, cpp_info, calls>>

Configure ==
    /\ pc = "configure"
    /\ options' = configure(options)
    /\ pc' = "validate"
    /\ UNCHANGED <<settings, boost_shared, error, requires, _cmake,
                   cmake_calls, files, cpp_info, calls>>

(***************************************************************************)
(* validate                                                                *)
(***************************************************************************)
\* Python's `sub in s` on strings
Contains(sub, s) ==
    \E i \in 1..(Len(s) - Len(sub) + 1) : SubSeq(s, i, i + Len(sub) - 1) = sub

\* check_min_cppstd's add_millennium(extract_cpp_version(cppstd))
CppStdYear(std) == IF std = 98 THEN 1998 ELSE 2000 + std

\* tools.check_min_cppstd(self, min) with compiler.cppstd set: TRUE when it raises
CppStdTooLow(cppstd, min) == CppStdYear(cppstd[1].std) < CppStdYear(min)

\* fault: the table read with a default (dict.get) instead of indexed
_check_compilier_version_get ==
    LET compiler == settings.compiler
        min == IF compiler \in DOMAIN _compilers_min_version
               THEN _compilers_min_version[compiler] ELSE <<0>>
    IN  IF VersionLT(settings.version, min)
        THEN Invalid("compiler_version", compiler, min)
        ELSE NoError

_check_compilier_version ==
    LET compiler == settings.compiler
        version == settings.version
    IN  IF compiler \notin DOMAIN _compilers_min_version
        THEN KeyError(compiler)
        ELSE IF VersionLT(version, _compilers_min_version[compiler])
             THEN Invalid("compiler_version", compiler,
                          _compilers_min_version[compiler])
             ELSE NoError

\* fault: "x86" missing from the tuple of intel architectures
SimdRejected_x86_64_only ==
    /\ settings.arch \notin {"x86_64"}
    /\ OptionTruthy(options.simd)

SimdRejected ==
    /\ settings.arch \notin {"x86", "x86_64"}
    /\ OptionTruthy(options.simd)

SharedMTRejected ==
    /\ OptionTruthy(options.shared)
    /\ settings.compiler = "Visual Studio"
    /\ Contains(<<"M", "T">>, settings.runtime)

\* the exception validate() raises, NoError when it returns
validate ==
    IF SharedMTRejected THEN Invalid("shared_mt_runtime", "", <<>>)
    ELSE IF settings.cppstd # <<>> /\ CppStdTooLow(settings.cppstd, 14)
         THEN Invalid("cppstd", "", <<>>)
    ELSE IF SimdRejected THEN Invalid("simd", "", <<>>)
    ELSE _check_compilier_version

Validate ==
    /\ pc = "validate"
    /\ error' = validate
    /\ pc' = IF validate.type = "none" THEN "requirements" ELSE "failed"
    /\ UNCHANGED <<settings, options, boost_shared, requires, _cmake,
                   cmake_calls, files, cpp_info, calls>>

(***************************************************************************)
(* requirements                                                            *)
(***************************************************************************)
\* "name/version"
Ref(name, version) == [name |-> name, version |-> version]

\* fault: c-blosc gated on with_zlib
requirements_blosc_on_zlib(opts) ==
    <<Ref("boost", "1.76.0"), Ref("tbb", "2020.3")>>
    \o (IF OptionTruthy(opts.with_zlib) THEN <<Ref("zlib", "1.2.11")>> ELSE <<>>)
    \o (IF OptionTruthy(opts.with_zlib) THEN <<Ref("c-blosc", "1.20.1")>> ELSE <<>>)
    \o (IF OptionTruthy(opts.with_log4cplus) THEN <<Ref("log4cplus", "2.0.5")>> ELSE <<>>)

requirements(opts) ==
    <<Ref("boost", "1.76.0"), Ref("tbb", "2020.3")>>
    \o (IF OptionTruthy(opts.with_zlib) THEN <<Ref("zlib", "1.2.11")>> ELSE <<>>)
    \o (IF OptionTruthy(opts.with_blosc) THEN <<Ref("c-blosc", "1.20.1")>> ELSE <<>>)
    \o (IF OptionTruthy(opts.with_log4cplus) THEN <<Ref("log4cplus", "2.0.5")>> ELSE <<>>)

Requirements ==
    /\ pc = "requirements"
    /\ requires' = requires \o requirements(options)
    /\ pc' = "build"
    /\ UNCHANGED <<settings, options, boost_shared, error, _cmake,
                   cmake_calls, files, cpp_info, calls>>

(***************************************************************************)
(* _patch_sources                                                          *)
(***************************************************************************)
\* a file: the folder it is in and its name, the name split after a leading
\* "Find" so that the mask "Find*" is a test of the first part
File(dir, name) == [dir |-> dir, name |-> name]

MatchesFindMask(f) == f.name[1] = "Find"

_source_subfolder == "source_subfolder"
_build_subfolder == "build_subfolder"

\* tools.remove_files_by_mask(<source>/cmake, "Find*"), then FindBlosc.cmake
\* is written in the working directory
_patch_sources(fs) ==
    {f \in fs : ~(f.dir = <<_source_subfolder, "cmake">> /\ MatchesFindMask(f))}
    \cup {File(<<>>, <<"Find", "Blosc.cmake">>)}

(***************************************************************************)
(* _configure_cmake                                                        *)
(***************************************************************************)
EmptyDefinitions == [k \in {} |-> ""]

\* fault: the runtime override injected for shared output too
RuntimeOverride_any_output(opts) ==
    IF settings.compiler = "Visual Studio"
    THEN "CMAKE_MSVC_RUNTIME_LIBRARY" :> "MultiThreaded$<$<CONFIG:Debug>:Debug>"
    ELSE EmptyDefinitions

\* lines 129-130: the runtime override ("Force MD(d)")
RuntimeOverride(opts) ==
    IF settings.compiler = "Visual Studio" /\ ~OptionTruthy(opts.shared)
    THEN "CMAKE_MSVC_RUNTIME_LIBRARY" :> "MultiThreaded$<$<CONFIG:Debug>:Debug>"
    ELSE EmptyDefinitions

\* the entries lines 129-165 put in self._cmake.definitions, as the strings
\* handed to the build tool
Definitions(opts) ==
    RuntimeOverride(opts)
    @@ ("USE_BLOSC" :> opts.with_blosc)
    @@ ("USE_ZLIB" :> opts.with_zlib)
    @@ ("USE_LOG4CPLUS" :> opts.with_log4cplus)
    @@ ("OPENVDB_SIMD" :> opts.simd)
    @@ ("OPENVDB_CORE_SHARED" :> opts.shared)
    @@ ("OPENVDB_CORE_STATIC" :> PyStr(~OptionTruthy(opts.shared)))
    @@ ("OPENVDB_BUILD_CORE" :> PyStr(TRUE))
    @@ ("OPENVDB_BUILD_BINARIES" :> PyStr(FALSE))
    @@ ("OPENVDB_BUILD_PYTHON_MODULE" :> PyStr(FALSE))
    @@ ("OPENVDB_BUILD_UNITTESTS" :> PyStr(FALSE))
    @@ ("OPENVDB_BUILD_DOCS" :> PyStr(FALSE))
    @@ ("OPENVDB_BUILD_HOUDINI_PLUGIN" :> PyStr(FALSE))
    @@ ("OPENVDB_BUILD_HOUDINI_ABITESTS" :> PyStr(FALSE))
    @@ ("OPENVDB_BUILD_AX" :> PyStr(FALSE))
    @@ ("OPENVDB_BUILD_AX_BINARIES" :> PyStr(FALSE))
    @@ ("OPENVDB_BUILD_AX_UNITTESTS" :> PyStr(FALSE))
    @@ ("OPENVDB_BUILD_MAYA_PLUGIN" :> PyStr(FALSE))
    @@ ("OPENVDB_ENABLE_RPATH" :> PyStr(FALSE))
    @@ ("OPENVDB_CXX_STRICT" :> PyStr(FALSE))
    @@ ("USE_HOUDINI" :> PyStr(FALSE))
    @@ ("USE_MAYA" :> PyStr(FALSE))
    @@ ("USE_STATIC_DEPENDENCIES" :> PyStr(FALSE))
    @@ ("USE_PKGCONFIG" :> PyStr(FALSE))
    @@ ("OPENVDB_INSTALL_CMAKE_MODULES" :> PyStr(FALSE))
    @@ ("Boost_USE_STATIC_LIBS" :> PyStr(~OptionTruthy(boost_shared)))
    @@ ("OPENVDB_DISABLE_BOOST_IMPLICIT_LINKING" :> PyStr(TRUE))

\* CMake(self) with the recipe's definitions; `configured` records whether
\* its configure() call returned
NewCMake(opts) == [definitions |-> Definitions(opts), configured |-> FALSE]

\* fault: the cache never consulted
CacheNeverHit(cache) == FALSE

\* `if self._cmake: return self._cmake`
CacheHit(cache) == cache # <<>>

\* _configure_cmake(): the helper cached afterwards, the build tool's log and
\* the exception raised (configure_ok: whether cmake.configure() succeeds)
_configure_cmake(configure_ok) ==
    IF CacheHit(_cmake)
    THEN [cmake |-> _cmake, log |-> cmake_calls, error |-> NoError]
    ELSE [cmake |-> <<[NewCMake(options) EXCEPT !.configured = configure_ok]>>,
          log |-> [cmake_calls EXCEPT !.created = @ + 1, !.configure = @ + 1],
          error |-> IF configure_ok THEN NoError
                    ELSE External("cmake.configure")]

(***************************************************************************)
(* build / package                                                         *)
(***************************************************************************)
Build ==
    /\ pc = "build"
    /\ calls < MaxCalls
    /\ \E configure_ok \in BOOLEAN, build_ok \in BOOLEAN :
         LET r == _configure_cmake(configure_ok)
         IN  /\ files' = _patch_sources(files)
             /\ _cmake' = r.cmake
             /\ IF r.error.type # "none"
                THEN /\ cmake_calls' = r.log
                     /\ error' = r.error
                     /\ pc' = "failed"
                ELSE /\ cmake_calls' = [r.log EXCEPT !.build = @ + 1]
                     /\ error' = IF build_ok THEN error
                                 ELSE External("cmake.build")
                     /\ pc' = IF build_ok THEN "build" ELSE "failed"
    /\ calls' = calls + 1
    /\ UNCHANGED <<settings, options, boost_shared, requires, cpp_info>>

\* what cmake.install() puts in the package folder
Installed ==
    {File(<<"package", "lib">>, <<"openvdb">>),
     File(<<"package", "lib", "cmake", "OpenVDB">>, <<"Find", "OpenVDB.cmake">>)}

\* tools.rmdir(<package>/lib/cmake)
RmdirLibCmake(fs) ==
    {f \in fs : ~(Len(f.dir) >= 3 /\ SubSeq(f.dir, 1, 3) = <<"package", "lib", "cmake">>)}

Package ==
    /\ pc = "build"
    /\ calls < MaxCalls
    /\ \E configure_ok \in BOOLEAN, install_ok \in BOOLEAN :
         LET r == _configure_cmake(configure_ok)
             copied == files \cup {File(<<"package", "licenses">>, <<"LICENSE">>)}
         IN  /\ _cmake' = r.cmake
             /\ IF r.error.type # "none"
                THEN /\ cmake_calls' = r.log
                     /\ error' = r.error
                     /\ files' = copied
                     /\ pc' = "failed"
                ELSE /\ cmake_calls' = [r.log EXCEPT !.install = @ + 1]
                     /\ error' = IF install_ok THEN error
                                 ELSE External("cmake.install")
                     /\ files' = IF install_ok
                                 THEN RmdirLibCmake(copied \cup Installed)
                                 ELSE copied
                     /\ pc' = IF install_ok THEN "build" ELSE "failed"
    /\ calls' = calls + 1
    /\ UNCHANGED <<settings, options, boost_shared, requires, cpp_info>>

(***************************************************************************)
(* package_info                                                            *)
(***************************************************************************)
\* "pkg::comp"
CompRef(pkg, comp) == [pkg |-> pkg, comp |-> comp]

target_suffix(opts) == IF OptionTruthy(opts.shared) THEN "_shared" ELSE "_static"

\* fault: the prefix given to every static build
lib_prefix_every_static(opts) ==
    IF OptionTruthy(opts.shared) THEN "" ELSE "lib"

lib_prefix(opts) ==
    IF OptionTruthy(opts.shared) \/ settings.os # "Windows" THEN "" ELSE "lib"

lib_define(opts) ==
    IF OptionTruthy(opts.shared) THEN "OPENVDB_DLL" ELSE "OPENVDB_STATICLIB"

ComponentDefines(opts) ==
    <<lib_define(opts)>>
    \o (IF OptionTruthy(opts.with_log4cplus) THEN <<"OPENVDB_USE_LOG4CPLUS">> ELSE <<>>)

\* fault: zlib::zlib gated on with_blosc
ComponentRequires_zlib_on_blosc(opts) ==
    <<CompRef("boost", "iostreams"), CompRef("boost", "system"), CompRef("tbb", "tbb")>>
    \o (IF settings.os = "Windows"
        THEN <<CompRef("boost", "disable_autolinking")>> ELSE <<>>)
    \o (IF OptionTruthy(opts.with_blosc) THEN <<CompRef("zlib", "zlib")>> ELSE <<>>)
    \o (IF OptionTruthy(opts.with_blosc) THEN <<CompRef("c-blosc", "c-blosc")>> ELSE <<>>)
    \o (IF OptionTruthy(opts.with_log4cplus)
        THEN <<CompRef("log4cplus", "log4cplus")>> ELSE <<>>)

ComponentRequires(opts) ==
    <<CompRef("boost", "iostreams"), CompRef("boost", "system"), CompRef("tbb", "tbb")>>
    \o (IF settings.os = "Windows"
        THEN <<CompRef("boost", "disable_autolinking")>> ELSE <<>>)
    \o (IF OptionTruthy(opts.with_zlib) THEN <<CompRef("zlib", "zlib")>> ELSE <<>>)
    \o (IF OptionTruthy(opts.with_blosc) THEN <<CompRef("c-blosc", "c-blosc")>> ELSE <<>>)
    \o (IF OptionTruthy(opts.with_log4cplus)
        THEN <<CompRef("log4cplus", "log4cplus")>> ELSE <<>>)

ComponentSystemLibs ==
    IF settings.os \in {"Linux", "FreeBSD"} THEN <<"pthread">> ELSE <<>>

\* self.cpp_info after package_info(): the root names and the component
\* "openvdb-core"
package_info(opts) ==
    [root_names |-> [cmake_find_package |-> "OpenVDB",
                     cmake_find_package_multi |-> "OpenVDB"],
     names |-> [cmake_find_package |-> "openvdb" \o target_suffix(opts),
                cmake_find_package_multi |-> "openvdb" \o target_suffix(opts)],
     libs |-> <<lib_prefix(opts) \o "openvdb">>,
     defines |-> ComponentDefines(opts),
     requires |-> ComponentRequires(opts),
     system_libs |-> ComponentSystemLibs]

\* the engine exports the metadata once the package folder holds the library
PackageInfo ==
    /\ pc = "build"
    /\ File(<<"package", "lib">>, <<"openvdb">>) \in files
    /\ cpp_info' = <<package_info(options)>>
    /\ pc' = "done"
    /\ UNCHANGED <<settings, options, boost_shared, error, requires, _cmake,
                   cmake_calls, files, calls>>

(***************************************************************************)
(* Inputs and initial states                                               *)
(***************************************************************************)
OSes == {"Windows", "Linux", "Macos", "FreeBSD"}
Archs == {"x86", "x86_64", "armv8"}
TableCompilers == DOMAIN _compilers_min_version
\* compilers of the settings model that the table does not list
OtherCompilers == {"qcc", "intel-cc"}

Runtimes(compiler) ==
    IF compiler = "Visual Studio"
    THEN {<<"M", "D">>, <<"M", "T">>, <<"M", "D", "d">>, <<"M", "T", "d">>}
    ELSE {<<>>}

CppStd(gnu, std) == <<[gnu |-> gnu, std |-> std]>>
CppStds == {<<>>, CppStd(FALSE, 98), CppStd(FALSE, 11), CppStd(FALSE, 14), CppStd(TRUE, 17)}

\* the versions of the end-to-end scenarios: 9.0 and 5.0
ExampleVersions == {<<9, 0>>, <<5, 0>>}

Around(n) == {k \in (n - VersionSpread)..(n + VersionSpread) : k >= 0}

\* versions of one, two and three components around the table entry
NearVersions(compiler) ==
    LET m == SemVer(_compilers_min_version[compiler])
    IN  {<<a>> : a \in Around(m[1])}
        \cup {<<a, b>> : a \in Around(m[1]), b \in Around(m[2])}
        \cup {<<a, b, c>> : a \in Around(m[1]), b \in Around(m[2]), c \in Around(m[3])}

Versions(compiler) ==
    IF compiler \in TableCompilers
    THEN NearVersions(compiler) \cup ExampleVersions
    ELSE ExampleVersions

Settings(os, arch, compiler, version, runtime, cppstd) ==
    [os |-> os, arch |-> arch, compiler |-> compiler, version |-> version,
     runtime |-> runtime, cppstd |-> cppstd]

SourceTree ==
    {File(<<_source_subfolder>>, <<"CMakeLists.txt">>),
     File(<<_source_subfolder>>, <<"LICENSE">>),
     File(<<_source_subfolder, "cmake">>, <<"Find", "Blosc.cmake">>),
     File(<<_source_subfolder, "cmake">>, <<"Find", "TBB.cmake">>),
     File(<<_source_subfolder, "cmake">>, <<"OpenVDBUtils.cmake">>)}

NoCalls == [created |-> 0, configure |-> 0, build |-> 0, install |-> 0]

\* the recipe object as constructed, before any hook ran
Fresh ==
    /\ pc = "config_options"
    /\ error = NoError
    /\ requires = <<>>
    /\ _cmake = <<>>
    /\ cmake_calls = NoCalls
    /\ files = SourceTree
    /\ cpp_info = <<>>
    /\ calls = 0

\* every option set, on a few platforms: the whole lifecycle
Init ==
    /\ \E os \in OSes, arch \in {"x86_64", "armv8"},
          compiler \in {"gcc", "Visual Studio", "qcc"} :
         \E version \in ExampleVersions \cup {_compilers_min_version["Visual Studio"]},
            runtime \in Runtimes(compiler) \cap {<<>>, <<"M", "D">>, <<"M", "T">>} :
              settings = Settings(os, arch, compiler, version, runtime, <<>>)
    /\ \E shared \in BoolValues, fPIC \in BoolValues, with_blosc \in BoolValues,
          with_zlib \in BoolValues, with_log4cplus \in BoolValues, simd \in SimdValues :
         options = [default_options EXCEPT !.shared = shared, !.fPIC = fPIC,
                       !.with_blosc = with_blosc, !.with_zlib = with_zlib,
                       !.with_log4cplus = with_log4cplus, !.simd = simd]
    /\ boost_shared \in BoolValues
    /\ Fresh

\* every platform fact validation reads, with the dependency options at
\* their defaults: config_options, configure and validate
InitValidate ==
    /\ \E os \in {"Windows", "Linux"}, arch \in Archs,
          compiler \in TableCompilers \cup OtherCompilers, cppstd \in CppStds :
         \E version \in Versions(compiler), runtime \in Runtimes(compiler) :
              settings = Settings(os, arch, compiler, version, runtime, cppstd)
    /\ \E shared \in BoolValues, simd \in SimdValues :
         options = [default_options EXCEPT !.shared = shared, !.simd = simd]
    /\ boost_shared = "False"
    /\ Fresh

Next ==
    \/ ConfigOptions
    \/ Configure
    \/ Validate
    \/ Requirements
    \/ Build
    \/ Package
    \/ PackageInfo

NextValidate ==
    \/ ConfigOptions
    \/ Configure
    \/ Validate

Spec == Init /\ [][Next]_vars

SpecValidate == InitValidate /\ [][NextValidate]_vars

(***************************************************************************)
(* Properties                                                              *)
(***************************************************************************)
Shared == options.shared = "True"
OnWindows == settings.os = "Windows"
\* validate() has returned or raised
Validated == pc \notin {"config_options", "configure", "validate"}
\* requirements() has run
Resolved == Validated /\ pc # "requirements" /\ error.type \notin {"ConanInvalidConfiguration", "KeyError"}

\* C1: config_options followed by configure completes without error, and the
\* finalized option schema has no fPIC option whenever os = Windows or
\* shared = True (on Windows with shared = True the removal runs twice).
C1_NoFPICOnWindowsOrShared ==
    pc \notin {"config_options", "configure"} =>
        /\ pc = "validate" => error = NoError
        /\ (OnWindows \/ Shared) => "fPIC" \notin DOMAIN options

C1_Witness ==
    /\ pc = "validate"
    /\ OnWindows
    /\ Shared
    /\ "fPIC" \notin DOMAIN options
    /\ error = NoError

\* the version as one number: components weigh 10^6, 10^3 and 1 (every
\* component of the model is below 1000), a missing component is 0
VersionNumber(v) ==
    (IF Len(v) >= 1 THEN v[1] ELSE 0) * 1000000
    + (IF Len(v) >= 2 THEN v[2] ELSE 0) * 1000
    + (IF Len(v) >= 3 THEN v[3] ELSE 0)

\* the rules validate() checks before the compiler version, on the raw inputs
EarlierRulesPass ==
    /\ ~(Shared /\ settings.compiler = "Visual Studio"
         /\ settings.runtime \in {<<"M", "T">>, <<"M", "T", "d">>})
    /\ settings.cppstd \in {<<>>, CppStd(FALSE, 14), CppStd(TRUE, 17)}
    /\ (settings.arch \in {"x86", "x86_64"} \/ options.simd = "None")

\* C2: for a compiler of the minimum-version table, with the other rules
\* satisfied, validate fails with a configuration-invalid error naming the
\* compiler and the required version when the version is strictly below the
\* table entry, and passes when it is equal or above (gcc 9.0 passes, gcc 5.0
\* fails, against 6.3.1).
C2_CompilerVersionRule ==
    (Validated /\ settings.compiler \in TableCompilers /\ EarlierRulesPass) =>
        LET min == _compilers_min_version[settings.compiler]
        IN  /\ VersionNumber(settings.version) < VersionNumber(min) =>
                /\ pc = "failed"
                /\ error = Invalid("compiler_version", settings.compiler, min)
            /\ VersionNumber(settings.version) >= VersionNumber(min) =>
                /\ pc # "failed"
                /\ error = NoError
            /\ (settings.compiler = "gcc" /\ settings.version = <<9, 0>>) =>
                error = NoError
            /\ (settings.compiler = "gcc" /\ settings.version = <<5, 0>>) =>
                error = Invalid("compiler_version", "gcc", <<6, 3, 1>>)

\* gcc 6.3 is below 6.3.1 only by the component it does not have
C2_Witness ==
    /\ Validated
    /\ EarlierRulesPass
    /\ settings.compiler = "gcc"
    /\ settings.version = <<6, 3>>
    /\ error = Invalid("compiler_version", "gcc", <<6, 3, 1>>)

\* C3: for a compiler with no entry in the minimum-version table validate
\* never returns success: the lookup fails (KeyError) unless an earlier rule
\* has already raised configuration-invalid.
C3_UnlistedCompilerNeverPasses ==
    (Validated /\ settings.compiler \notin TableCompilers) =>
        /\ pc = "failed"
        /\ error.type \in {"KeyError", "ConanInvalidConfiguration"}
        /\ EarlierRulesPass => error = KeyError(settings.compiler)

C3_Witness ==
    /\ Validated
    /\ settings.compiler = "qcc"
    /\ EarlierRulesPass
    /\ pc = "failed"
    /\ error.type = "KeyError"

NonIntelSimd == settings.arch \notin {"x86", "x86_64"} /\ options.simd \in {"sse42", "avx"}

\* C4: with arch outside {x86, x86_64} and simd sse42 or avx validate fails
\* with a configuration-invalid error, and the simd rule rejects no
\* configuration whose arch is x86 or x86_64 or whose simd is None.
C4_SimdRule ==
    Validated =>
        /\ NonIntelSimd => (pc = "failed" /\ error.type = "ConanInvalidConfiguration")
        /\ error.rule = "simd" => NonIntelSimd

C4_Witness ==
    /\ Validated
    /\ settings.arch = "armv8"
    /\ options.simd = "avx"
    /\ error = Invalid("simd", "", <<>>)

RequirementNames == [i \in 1..Len(requires) |-> requires[i].name]

\* C5: requirements() gives boost, tbb, then zlib iff with_zlib, c-blosc iff
\* with_blosc and log4cplus iff with_log4cplus, in that order, whatever the
\* other options and the platform are (defaults: boost, tbb, zlib, c-blosc).
C5_RequirementList ==
    Resolved =>
        LET Wanted(n) ==
                \/ n \in {"boost", "tbb"}
                \/ n = "zlib" /\ options.with_zlib = "True"
                \/ n = "c-blosc" /\ options.with_blosc = "True"
                \/ n = "log4cplus" /\ options.with_log4cplus = "True"
        IN  /\ RequirementNames =
                   SelectSeq(<<"boost", "tbb", "zlib", "c-blosc", "log4cplus">>, Wanted)
            /\ (/\ options.with_zlib = default_options.with_zlib
                /\ options.with_blosc = default_options.with_blosc
                /\ options.with_log4cplus = default_options.with_log4cplus) =>
                   RequirementNames = <<"boost", "tbb", "zlib", "c-blosc">>

C5_Witness ==
    /\ Resolved
    /\ options.with_zlib = "False"
    /\ options.with_blosc = "True"
    /\ options.with_log4cplus = "True"
    /\ RequirementNames = <<"boost", "tbb", "c-blosc", "log4cplus">>

\* C6: over any sequence of build() and package() calls the build tool's
\* configure step runs at most once: the first call creates the helper and
\* configures, every later call leaves the cached helper, its definitions and
\* the configure count as they are.
C6_ConfigureAtMostOnce ==
    [][/\ cmake_calls'.configure <= 1
       /\ (_cmake = <<>> /\ calls' = calls + 1) =>
              /\ _cmake' # <<>>
              /\ cmake_calls'.created = 1
              /\ cmake_calls'.configure = 1
       /\ _cmake # <<>> =>
              /\ _cmake' = _cmake
              /\ cmake_calls'.created = cmake_calls.created
              /\ cmake_calls'.configure = cmake_calls.configure]_vars

C6_Witness ==
    /\ calls >= 3
    /\ cmake_calls.build >= 1
    /\ cmake_calls.install >= 1
    /\ cmake_calls.configure = 1
    /\ pc = "build"

Exported == pc = "done" /\ cpp_info # <<>>

DefineSet == {cpp_info[1].defines[i] : i \in 1..Len(cpp_info[1].defines)}

\* C7: package_info exports alias openvdb_shared and define OPENVDB_DLL when
\* shared, alias openvdb_static and define OPENVDB_STATICLIB when not; the
\* library name is libopenvdb iff static on Windows, else openvdb;
\* OPENVDB_USE_LOG4CPLUS is defined iff with_log4cplus.
C7_ExportedNamesAndDefines ==
    Exported =>
        LET c == cpp_info[1]
        IN  /\ Shared =>
                /\ c.names.cmake_find_package = "openvdb_shared"
                /\ c.names.cmake_find_package_multi = "openvdb_shared"
                /\ DefineSet \ {"OPENVDB_USE_LOG4CPLUS"} = {"OPENVDB_DLL"}
            /\ ~Shared =>
                /\ c.names.cmake_find_package = "openvdb_static"
                /\ c.names.cmake_find_package_multi = "openvdb_static"
                /\ DefineSet \ {"OPENVDB_USE_LOG4CPLUS"} = {"OPENVDB_STATICLIB"}
            /\ c.libs = IF ~Shared /\ OnWindows THEN <<"libopenvdb">> ELSE <<"openvdb">>
            /\ "OPENVDB_USE_LOG4CPLUS" \in DefineSet <=> options.with_log4cplus = "True"

C7_Witness ==
    /\ Exported
    /\ ~Shared
    /\ OnWindows
    /\ cpp_info[1].libs = <<"libopenvdb">>
    /\ cpp_info[1].names.cmake_find_package = "openvdb_static"
    /\ DefineSet = {"OPENVDB_STATICLIB", "OPENVDB_USE_LOG4CPLUS"}

ComponentRequireSet == {cpp_info[1].requires[i] : i \in 1..Len(cpp_info[1].requires)}

\* C8: the exported requires always hold boost::iostreams, boost::system and
\* tbb::tbb; zlib::zlib, c-blosc::c-blosc and log4cplus::log4cplus each iff
\* its gating option; boost::disable_autolinking iff os is Windows; and every
\* package they refer to is in the list requirements() produced.
C8_ExportedRequires ==
    Exported =>
        /\ {CompRef("boost", "iostreams"), CompRef("boost", "system"),
            CompRef("tbb", "tbb")} \subseteq ComponentRequireSet
        /\ CompRef("zlib", "zlib") \in ComponentRequireSet
               <=> options.with_zlib = "True"
        /\ CompRef("c-blosc", "c-blosc") \in ComponentRequireSet
               <=> options.with_blosc = "True"
        /\ CompRef("log4cplus", "log4cplus") \in ComponentRequireSet
               <=> options.with_log4cplus = "True"
        /\ CompRef("boost", "disable_autolinking") \in ComponentRequireSet
               <=> OnWindows
        /\ \A r \in ComponentRequireSet :
               \E i \in 1..Len(requires) : requires[i].name = r.pkg

C8_Witness ==
    /\ Exported
    /\ OnWindows
    /\ options.with_log4cplus = "True"
    /\ options.with_zlib = "False"
    /\ CompRef("boost", "disable_autolinking") \in ComponentRequireSet
    /\ CompRef("log4cplus", "log4cplus") \in ComponentRequireSet
    /\ CompRef("zlib", "zlib") \notin ComponentRequireSet

\* C9: the generated definitions have USE_BLOSC = with_blosc, USE_ZLIB =
\* with_zlib, USE_LOG4CPLUS = with_log4cplus, OPENVDB_CORE_SHARED = shared,
\* OPENVDB_CORE_STATIC = not shared, and hold CMAKE_MSVC_RUNTIME_LIBRARY iff
\* the compiler is Visual Studio and shared is false.
C9_BuildDefinitions ==
    _cmake # <<>> =>
        LET d == _cmake[1].definitions
        IN  /\ d["USE_BLOSC"] = options.with_blosc
            /\ d["USE_ZLIB"] = options.with_zlib
            /\ d["USE_LOG4CPLUS"] = options.with_log4cplus
            /\ d["OPENVDB_CORE_SHARED"] = options.shared
            /\ d["OPENVDB_CORE_STATIC"] = (IF Shared THEN "False" ELSE "True")
            /\ {d["OPENVDB_CORE_SHARED"], d["OPENVDB_CORE_STATIC"]} = {"True", "False"}
            /\ "CMAKE_MSVC_RUNTIME_LIBRARY" \in DOMAIN d
                   <=> (settings.compiler = "Visual Studio" /\ ~Shared)

C9_Witness ==
    /\ _cmake # <<>>
    /\ settings.compiler = "Visual Studio"
    /\ ~Shared
    /\ "CMAKE_MSVC_RUNTIME_LIBRARY" \in DOMAIN _cmake[1].definitions
    /\ _cmake[1].definitions["OPENVDB_CORE_STATIC"] = "True"
    /\ _cmake[1].definitions["USE_LOG4CPLUS"] = "True"

\* C10: a failure of the build tool's configure step leaves no partial
\* state: whenever the cache _cmake is non-empty, it holds a helper whose
\* definitions are populated and whose configure step completed.
C10_CachedHelperIsConfigured ==
    _cmake # <<>> =>
        /\ _cmake[1].definitions = Definitions(options)
        /\ _cmake[1].configured

====
